---- MODULE Spec2Model ----
(***************************************************************************)
(* Dataset preparation scripts of the Indian food recognition trainer:     *)
(*   MLModelTraining/download_datasets.py   (directory set-up)             *)
(*   MLModelTraining/train_coreml_model.py  (IndianFoodModelTrainer)       *)
(*   MLModelTraining/simple_trainer.py      (two-way splitter)             *)
(* The state is the file system under datasets/ and models/; every action  *)
(* is one script run or one method call, taken as a whole.                 *)
(***************************************************************************)
EXTENDS Integers, Sequences, FiniteSets, TLC

\* ------------------------------------------------------------------ bounds
PoolWorkers == 2    \* copies that may be in flight at once when copies overlap
MaxJpg == 10        \* most *.jpg files in one raw category directory
MaxPng == 1         \* most *.png files in one raw category directory
OtherFiles == 1     \* files of another extension in each raw category
RngStates == 2      \* number of distinct seeds the ambient generator may get
MaxRatioTenths == 12   \* largest train_ratio / val_ratio tried alone, in tenths
MaxImages == 8      \* most *.jpg files in one class directory of train_model.py

\* ------------------------------------------------------- program constants
MinSamples == 10    \* "if len(image_files) < 10" / "if count >= 10"
SimpleTrainTenths == 8   \* int(len(image_files) * 0.8), in tenths

Categories == {"biryani", "dosa"}
SplitNames == {"train", "validation", "test"}

\* create_dataset_structure: the class directories made in every split
indian_food_classes ==
  {"biryani", "dosa", "idli", "samosa", "butter_chicken", "naan", "roti",
   "dal", "curry", "paneer", "tandoori_chicken", "masala_dosa", "pulao",
   "paratha", "poha", "upma", "vada", "uttapam", "dhokla", "kachori",
   "pav_bhaji", "chole", "rajma", "aloo_gobi", "palak_paneer"}

\* str ordering used by sorted(): the names of the model in code-point order
NameOrder ==
  <<"aloo_gobi", "biryani", "butter_chicken", "chole", "curry", "dal",
    "dhokla", "dosa", "idli", "kachori", "masala_dosa", "naan",
    "palak_paneer", "paneer", "paratha", "pav_bhaji", "poha", "pulao",
    "rajma", "roti", "samosa", "tandoori_chicken", "upma", "uttapam", "vada">>

\* prepare_dataset_splits(train_ratio, val_ratio, test_ratio), in tenths.
\* <<7,2,1>> is the default; the others are what a caller may pass.
DefaultRatios == <<7, 2, 1>>
RatioInputs == {<<7, 2, 1>>, <<8, 2, 0>>, <<8, 5, 0>>, <<-1, 6, 5>>}

ValidRatios(r) == r[1] >= 0 /\ r[2] >= 0 /\ r[3] >= 0 /\ r[1] + r[2] + r[3] = 10

\* ------------------------------------------------------------ raw entries
\* An entry of datasets/raw: a plain file, or a directory holding jpg files
\* 1..jpg, png files 1..png and `other` files of another extension (which no
\* glob of the scripts matches).
DirShapes ==
  [isDir : {TRUE}, jpg : (MinSamples - 1)..MaxJpg,
   png : {0, MaxPng}, other : {OtherFiles}]
PlainFile == [isDir |-> FALSE, jpg |-> 0, png |-> 0, other |-> 0]
EntryShapes == DirShapes \cup {PlainFile}
RawTrees == UNION {[D -> EntryShapes] : D \in SUBSET Categories}

EmptyTree == [c \in {} |-> {}]

VARIABLES
  rawExists,   \* datasets/raw exists
  raw,         \* entries of datasets/raw: name -> shape
  rawOrder,    \* the order in which iterdir() lists datasets/raw
  exists,      \* split name -> the split directory exists
  tree,        \* split name -> (category directory -> set of file names)
  modelsDir,   \* models/ exists
  manifest,    \* models/class_indices.json
  last,        \* what the last operation was, what it returned and computed
  calls,       \* the functions the last operation called, in order
  unreadable,  \* <<category, file>> pairs of raw that cannot be opened
  procs,       \* invocation -> where a step-by-step run of simple_trainer is
  pool,        \* the copies of one run, handed to workers that may overlap
  artifacts    \* the files written besides the splits: the .mlmodel and
               \* mock_model_info.json, model_metadata.json of train_model.py,
               \* or the data files of setup_datasets.py

vars == <<rawExists, raw, rawOrder, exists, tree, modelsDir, manifest, last, calls,
          unreadable, procs, pool, artifacts>>
stepVars == <<unreadable, procs, pool>>

\* ---------------------------------------------------------------- helpers
Max(a, b) == IF a >= b THEN a ELSE b
Min(a, b) == IF a <= b THEN a ELSE b

\* Python list slice x[a:b] for integer a, b (negative counts from the end)
SliceIndex(k, n) == IF k < 0 THEN Max(k + n, 0) ELSE Min(k, n)
PySlice(x, a, b) ==
  LET lo == SliceIndex(a, Len(x))
      hi == SliceIndex(b, Len(x))
  IN  IF lo >= hi THEN <<>> ELSE SubSeq(x, lo + 1, hi)

\* int(total * ratio) with the ratio in tenths: truncation toward zero
IntTimes(total, tenths) ==
  LET p == total * tenths
  IN  IF p >= 0 THEN p \div 10 ELSE -((-p) \div 10)

Range(s) == {s[i] : i \in 1..Len(s)}

\* list(dir.glob("*.ext")): the files of that extension
Glob(shape, ext) ==
  IF ext = "jpg" THEN [i \in 1..shape.jpg |-> <<i, "jpg">>]
  ELSE IF ext = "png" THEN [i \in 1..shape.png |-> <<i, "png">>]
  ELSE <<>>

\* list(glob("*.jpg")) + list(glob("*.png"))
ImageFiles(shape) == Glob(shape, "jpg") \o Glob(shape, "png")

\* file_path.name: the name a copy gets in the destination directory
DstName(f) == f

\* sorted(names) for a set or list of names
Sorted(S) == SelectSeq(NameOrder, LAMBDA n : n \in S)

\* position of a name in a list
RECURSIVE IndexOf(_, _)
IndexOf(s, x) == IF s = <<>> THEN 0
                 ELSE IF Head(s) = x THEN 1
                 ELSE LET r == IndexOf(Tail(s), x) IN IF r = 0 THEN 0 ELSE r + 1

\* {cls: idx for idx, cls in enumerate(names)}
Enumerate(names) == [c \in Range(names) |-> IndexOf(names, c) - 1]

\* the orders in which iterdir() may list a set of entries
Orders(S) ==
  {s \in [1..Cardinality(S) -> S] : \A i, j \in 1..Cardinality(S) : s[i] = s[j] => i = j}

\* ------------------------------------------------------ ambient generator
\* The module-level generator of `random`; never seeded by the scripts, so
\* each run starts it in a state the caller does not control.
NextRng(s) == (5 * s + 3) % 97
RandBelow(s, n) == s % n

\* random.shuffle: for i in reversed(range(1, len(x))): j = randbelow(i+1); swap
RECURSIVE ShuffleFrom(_, _, _)
ShuffleFrom(x, i, s) ==
  IF i < 2 THEN [list |-> x, rng |-> s]
  ELSE LET j == 1 + RandBelow(s, i)
           y == [x EXCEPT ![i] = x[j], ![j] = x[i]]
       IN  ShuffleFrom(y, i - 1, NextRng(s))
Shuffle(x, s) == ShuffleFrom(x, Len(x), s)

\* ------------------------------------------------------------ file system
AllMissing == [s \in SplitNames |-> FALSE]
NoTrees == [s \in SplitNames |-> EmptyTree]

\* "if split_dir.exists(): shutil.rmtree(split_dir)" then "split_dir.mkdir()"
ClearDirs(ex, tr, S) ==
  [exists |-> [s \in SplitNames |-> IF s \in S THEN TRUE ELSE ex[s]],
   tree |-> [s \in SplitNames |-> IF s \in S THEN EmptyTree ELSE tr[s]]]

\* category_dir.mkdir(exist_ok=True) in one split directory
MkCategoryDir(d, c) ==
  [n \in DOMAIN d \cup {c} |-> IF n \in DOMAIN d THEN d[n] ELSE {}]

\* variant: a copy that replaces what the category directory holds
CopyFilesReplacing(d, c, files) ==
  [d EXCEPT ![c] = {DstName(files[i]) : i \in 1..Len(files)}]

\* shutil.copy2(file_path, category_dir / file_path.name) for each file
CopyFiles(d, c, files) ==
  [d EXCEPT ![c] = @ \cup {DstName(files[i]) : i \in 1..Len(files)}]

\* variant: the files are moved, so an assigned category loses its images
SourceAfterMoves(rawT, assign) ==
  [c \in DOMAIN rawT |->
     IF c \in DOMAIN assign /\ assign[c].train # <<>>
     THEN [rawT[c] EXCEPT !.jpg = 0, !.png = 0] ELSE rawT[c]]

\* datasets/raw after the copies of a run: glob and shutil.copy2 only read
\* the source, and rmtree / mkdir are applied to the split directories only
SourceAfterCopies(rawT, assign) == rawT

\* ---------------------------------------------- what an operation reports
NoAssign == [c \in {} |-> <<>>]
Report(op, ratios, outcome, split, kept, skipped, assign) ==
  [op |-> op, ratios |-> ratios, outcome |-> outcome, split |-> split,
   kept |-> kept, skipped |-> skipped, assign |-> assign]
NoReport == Report("none", <<0, 0, 0>>, "none", FALSE, <<>>, {}, NoAssign)

\* the manifest file: absent, or the JSON document written last
NoManifest ==
  [written |-> FALSE, top |-> "none", classes |-> <<>>, num_classes |-> 0,
   class_to_idx |-> NoAssign]

\* ------------------------------------------------- train_coreml_model.py
\* attributes set by IndianFoodModelTrainer.__init__ : name -> split directory
TrainerPaths ==
  [train_path |-> "train", val_path |-> "validation", test_path |-> "test"]

\* the (split_name, files) pairs of the copy loop, and f"{split_name}_path"
SplitOrder == <<"train", "validation", "test">>
PathAttr ==
  [train |-> "train_path", validation |-> "validation_path", test |-> "test_path"]

\* analyze_dataset: None when raw is missing, else the category directories
AnalyzeDataset(rawEx, rawT, order) ==
  IF ~rawEx THEN [ret |-> "None", categories |-> <<>>]
  ELSE LET cats == SelectSeq(order, LAMBDA n : rawT[n].isDir)
       IN  IF Len(cats) = 0
           THEN [ret |-> "ZeroDivisionError", categories |-> <<>>]
           ELSE [ret |-> "ok", categories |-> cats]

\* "if len(image_files) < 10: continue"
TooFew(n) == n < MinSamples

\* variant: the second cut at int(total * (train_ratio + val_ratio))
SplitListsCumulative(files, tr, vr) ==
  LET total == Len(files)
      train_size == IntTimes(total, tr)
      second == IntTimes(total, tr + vr)
  IN  [shuffled |-> files,
       train |-> PySlice(files, 0, train_size),
       val |-> PySlice(files, train_size, second),
       test |-> PySlice(files, second, total)]

\* variant: the test slice starts at val_size
SplitListsTestFromVal(files, tr, vr) ==
  LET total == Len(files)
      train_size == IntTimes(total, tr)
      val_size == IntTimes(total, vr)
  IN  [shuffled |-> files,
       train |-> PySlice(files, 0, train_size),
       val |-> PySlice(files, train_size, train_size + val_size),
       test |-> PySlice(files, val_size, total)]

\* train_size, val_size and the three slices of the shuffled list
SplitLists(files, tr, vr) ==
  LET total == Len(files)
      train_size == IntTimes(total, tr)
      val_size == IntTimes(total, vr)
  IN  [shuffled |-> files,
       train |-> PySlice(files, 0, train_size),
       val |-> PySlice(files, train_size, train_size + val_size),
       test |-> PySlice(files, train_size + val_size, total)]

\* the loop over ("train", ...), ("validation", ...), ("test", ...) of one
\* category: getattr, mkdir, copy; a missing attribute raises AttributeError
RECURSIVE CopySplits(_, _, _, _)
CopySplits(t, c, lists, k) ==
  IF k > Len(SplitOrder) THEN [tree |-> t, outcome |-> "ok"]
  ELSE LET attr == PathAttr[SplitOrder[k]]
       IN  IF attr \notin DOMAIN TrainerPaths
           THEN [tree |-> t, outcome |-> "AttributeError"]
           ELSE LET s == TrainerPaths[attr]
                    files == IF k = 1 THEN lists.train
                             ELSE IF k = 2 THEN lists.val ELSE lists.test
                    made == [t EXCEPT ![s] = MkCategoryDir(@, c)]
                    done == [made EXCEPT ![s] = CopyFiles(@, c, files)]
                IN  CopySplits(done, c, lists, k + 1)

\* "for category in categories": st carries the trees, the generator state
\* and what has been decided so far; an exception ends the loop
RECURSIVE TrainerLoop(_, _, _, _, _)
TrainerLoop(rawT, cats, i, r, st) ==
  IF i > Len(cats) \/ st.outcome # "ok" THEN st
  ELSE LET c == cats[i]
           image_files == ImageFiles(rawT[c])
       IN  IF TooFew(Len(image_files))
           THEN TrainerLoop(rawT, cats, i + 1, r,
                            [st EXCEPT !.skipped = @ \cup {c}])
           ELSE LET sh == Shuffle(image_files, st.rng)
                    lists == SplitLists(sh.list, r[1], r[2])
                    cp == CopySplits(st.tree, c, lists, 1)
                IN  TrainerLoop(rawT, cats, i + 1, r,
                      [tree |-> cp.tree, rng |-> sh.rng, outcome |-> cp.outcome,
                       kept |-> Append(st.kept, c), skipped |-> st.skipped,
                       assign |-> [n \in DOMAIN st.assign \cup {c} |->
                                     IF n = c THEN lists ELSE st.assign[n]]])

\* prepare_dataset_splits(train_ratio, val_ratio, test_ratio)
PrepareDatasetSplits(rawEx, rawT, ex, tr, order, seed, r) ==
  LET a == AnalyzeDataset(rawEx, rawT, order)
  IN  IF a.ret # "ok"
      THEN [exists |-> ex, tree |-> tr,
            report |-> Report("prepare", r,
                         IF a.ret = "None" THEN "TypeError" ELSE a.ret,
                         FALSE, <<>>, {}, NoAssign)]
      ELSE LET cl == ClearDirs(ex, tr, {TrainerPaths[p] : p \in DOMAIN TrainerPaths})
               st == TrainerLoop(rawT, a.categories, 1, r,
                       [tree |-> cl.tree, rng |-> seed, outcome |-> "ok",
                        kept |-> <<>>, skipped |-> {}, assign |-> NoAssign])
           IN  [exists |-> cl.exists, tree |-> st.tree,
                report |-> Report("prepare", r, st.outcome, TRUE,
                                  st.kept, st.skipped, st.assign)]

\* flow_from_directory(...).class_indices: the sub-directories in sorted order
KerasClassIndices(d) == Enumerate(Sorted(DOMAIN d))

\* create_data_generators: both directories are listed, then the class
\* indices of the training generator are dumped to models/class_indices.json
CreateDataGenerators(ex, tr, man) ==
  IF ~ex["train"] \/ ~ex["validation"]
  THEN [outcome |-> "FileNotFoundError", manifest |-> man]
  ELSE [outcome |-> "ok",
        manifest |-> [written |-> TRUE, top |-> "class_indices",
                      classes |-> <<>>, num_classes |-> 0,
                      class_to_idx |-> KerasClassIndices(tr["train"])]]

\* variant: the split is prepared only when the train directory is missing
NeedsSplitMissingOnly(ex, tr) == ~ex["train"]

\* "if not self.train_path.exists() or len(list(self.train_path.iterdir())) == 0"
NeedsSplit(ex, tr) == ~ex["train"] \/ DOMAIN tr["train"] = {}

\* ------------------------------------------------------ simple_trainer.py
\* variant: a strict threshold
EnoughStrict(count) == count > MinSamples

\* "if count >= 10": only categories with enough images are included
Enough(count) == count >= MinSamples

\* split_point = int(len(image_files) * 0.8); the two slices
SimpleLists(files) ==
  LET split_point == IntTimes(Len(files), SimpleTrainTenths)
  IN  [shuffled |-> files,
       train |-> PySlice(files, 0, split_point),
       val |-> PySlice(files, split_point, Len(files)),
       test |-> <<>>]

\* "for category in categories": shuffle, split, mkdir, copy
RECURSIVE SimpleLoop(_, _, _, _)
SimpleLoop(rawT, cats, i, st) ==
  IF i > Len(cats) THEN st
  ELSE LET c == cats[i]
           sh == Shuffle(ImageFiles(rawT[c]), st.rng)
           lists == SimpleLists(sh.list)
           t1 == [st.tree EXCEPT !["train"] = MkCategoryDir(@, c),
                                 !["validation"] = MkCategoryDir(@, c)]
           t2 == [t1 EXCEPT !["train"] = CopyFiles(@, c, lists.train),
                            !["validation"] = CopyFiles(@, c, lists.val)]
       IN  SimpleLoop(rawT, cats, i + 1,
             [tree |-> t2, rng |-> sh.rng,
              assign |-> [n \in DOMAIN st.assign \cup {c} |->
                            IF n = c THEN lists ELSE st.assign[n]]])

\* class_info: sorted classes, their number, name -> position
ClassInfo(categories) ==
  [written |-> TRUE, top |-> "class_info",
   classes |-> Sorted(Range(categories)),
   num_classes |-> Len(categories),
   class_to_idx |-> Enumerate(Sorted(Range(categories)))]

\* the body of analyze_and_prepare_dataset once raw is known to exist
SimpleSplit(rawT, ex, tr, order, seed) ==
  LET cl == ClearDirs(ex, tr, {"train", "validation"})
      dirs == SelectSeq(order, LAMBDA n : rawT[n].isDir)
      categories == SelectSeq(dirs, LAMBDA n : Enough(Len(ImageFiles(rawT[n]))))
      st == SimpleLoop(rawT, categories, 1,
                       [tree |-> cl.tree, rng |-> seed, assign |-> NoAssign])
  IN  [exists |-> cl.exists, tree |-> st.tree,
       manifest |-> ClassInfo(categories),
       report |-> Report("simple", <<SimpleTrainTenths, 10 - SimpleTrainTenths, 0>>,
                         "ok", TRUE, categories,
                         Range(dirs) \ Range(categories), st.assign)]

\* variant: the directories are cleared without looking for raw first
PrepareWithoutSourceCheck(rawEx, rawT, ex, tr, man, order, seed) ==
  SimpleSplit(rawT, ex, tr, order, seed)

\* analyze_and_prepare_dataset: False, untouched, when raw is missing
AnalyzeAndPrepareDataset(rawEx, rawT, ex, tr, man, order, seed) ==
  IF ~rawEx
  THEN [exists |-> ex, tree |-> tr, manifest |-> man,
        report |-> Report("simple", <<SimpleTrainTenths, 10 - SimpleTrainTenths, 0>>,
                          "False", FALSE, <<>>, {}, NoAssign)]
  ELSE SimpleSplit(rawT, ex, tr, order, seed)

\* ------------------------------------- simple_trainer.py, statement by statement
\* the invocations that may run side by side on one working directory
Invocations == 1..2

\* "for split_dir in [train_path, val_path]"
SimpleSplitDirs == <<"train", "validation">>

NoLists == [shuffled |-> <<>>, train |-> <<>>, val |-> <<>>, test |-> <<>>]

\* an invocation that has not started: its position, the loop indices, its
\* generator, the local variables categories / train_files / val_files, what
\* it has assigned so far, how it ended, and how it was scheduled against
\* the other invocation
IdleProc ==
  [pc |-> "idle", k |-> 0, rng |-> 0, cats |-> <<>>, ci |-> 0,
   lists |-> NoLists, assign |-> NoAssign, outcome |-> "none",
   overlapped |-> FALSE, second |-> FALSE]

\* an invocation that has ended: its locals are gone
Ended(q, outcome) ==
  [q EXCEPT !.pc = "done", !.outcome = outcome, !.k = 0, !.ci = 0, !.rng = 0,
            !.lists = NoLists]

\* variant: rmtree that forgets the directory but leaves its content behind
RmtreeKeepsFiles(ex, tr, s) ==
  [exists |-> [ex EXCEPT ![s] = FALSE], tree |-> tr]

\* "if split_dir.exists(): shutil.rmtree(split_dir)"
Rmtree(ex, tr, s) ==
  [exists |-> [ex EXCEPT ![s] = FALSE], tree |-> [tr EXCEPT ![s] = EmptyTree]]

\* "for file_path in files: shutil.copy2(file_path, category_dir / file_path.name)"
\* copy2 raises when the category directory is gone or the source cannot be
\* opened; nothing catches it, so the files after it are not copied
RECURSIVE CopyEach(_, _, _, _, _)
CopyEach(d, c, files, i, bad) ==
  IF i > Len(files) THEN [dir |-> d, outcome |-> "ok"]
  ELSE IF c \notin DOMAIN d THEN [dir |-> d, outcome |-> "FileNotFoundError"]
  ELSE IF <<c, files[i]>> \in bad THEN [dir |-> d, outcome |-> "PermissionError"]
  ELSE CopyEach(CopyFiles(d, c, <<files[i]>>), c, files, i + 1, bad)

\* ------------------------------------------------ the copies of one run
\* the list a run assigned to a split
ListOf(lists, s) ==
  IF s = "train" THEN lists.train
  ELSE IF s = "validation" THEN lists.val ELSE lists.test

\* the splits the trainer's loop of line 116 gets to: it ends at the first
\* name whose attribute getattr does not find
ReachedSplits ==
  LET bad == {k \in 1..Len(SplitOrder) : PathAttr[SplitOrder[k]] \notin DOMAIN TrainerPaths}
  IN  IF bad = {} THEN SplitOrder
      ELSE SubSeq(SplitOrder, 1, (CHOOSE k \in bad : \A j \in bad : k <= j) - 1)

\* the shutil.copy2 calls of a run in the order the loops make them:
\* <<split directory, category, file>> for category i, split k onwards
RECURSIVE PlanCopies(_, _, _, _, _)
PlanCopies(kept, assign, splits, i, k) ==
  IF i > Len(kept) THEN <<>>
  ELSE IF k > Len(splits) THEN PlanCopies(kept, assign, splits, i + 1, 1)
  ELSE LET files == ListOf(assign[kept[i]], splits[k])
       IN  [j \in 1..Len(files) |-> <<splits[k], kept[i], files[j]>>]
             \o PlanCopies(kept, assign, splits, i, k + 1)

\* the category directories the run makes in split directory s
PlanDirs(kept, splits, s) ==
  IF s \in Range(splits) THEN [c \in Range(kept) |-> {}] ELSE EmptyTree

NoPool ==
  [started |-> FALSE, queue |-> <<>>, next |-> 0, inflight |-> {},
   expected |-> NoTrees, crossed |-> FALSE]

\* --------------------------------------------- what the caller gets back
\* exceptions no function of the scripts catches
Uncaught == {"TypeError", "ZeroDivisionError", "AttributeError", "FileNotFoundError"}

\* The value the split function hands to its caller: analyze_and_prepare_dataset
\* returns True or False; prepare_dataset_splits has no return statement
ReturnValue(report) ==
  IF report.outcome \in Uncaught THEN "raised"
  ELSE IF report.op = "simple"
       THEN (IF report.outcome = "ok" THEN "True" ELSE "False")
       ELSE "None"

\* "if __name__ == '__main__': main()": the exit codes a run of the script can
\* end with. An uncaught exception ends the interpreter with 1, a return from
\* main with 0; after create_data_generators the trainer goes on to build and
\* fit a network, which may end either way.
ExitCodes(report) ==
  IF report.outcome \in Uncaught THEN {1}
  ELSE IF report.op = "train_main" /\ report.outcome = "ok" THEN {0, 1}
  ELSE {0}

\* ----------------------------------------- simple_trainer.py: the builders
NoArtifacts ==
  [mlmodel |-> [written |-> FALSE, classes |-> <<>>],
   mock |-> [written |-> FALSE, classes |-> <<>>, num_classes |-> 0,
             fallback_classes |-> <<>>]]

\* create_simple_coreml_model: the classes of models/class_indices.json go
\* into the classifier that is saved; any exception (coremltools missing, the
\* manifest missing, the builder failing) is caught and nothing is saved
CreateSimpleCoremlModel(man, art, coreml) ==
  IF coreml /\ man.written /\ man.top = "class_info"
  THEN [written |-> TRUE, classes |-> man.classes]
  ELSE art.mlmodel

\* create_mock_intelligent_model: classes, num_classes and the first ten
\* classes are taken from models/class_indices.json
CreateMockIntelligentModel(man) ==
  [written |-> TRUE, classes |-> man.classes, num_classes |-> Len(man.classes),
   fallback_classes |-> PySlice(man.classes, 0, 10)]

\* variant: the builders are called whatever the preparation returned
MainIgnoringResult(prep, art, coreml) ==
  [calls |-> <<"analyze_and_prepare_dataset", "create_simple_coreml_model",
               "create_mock_intelligent_model">>,
   artifacts |-> [mlmodel |-> CreateSimpleCoremlModel(prep.manifest, art, coreml),
                  mock |-> CreateMockIntelligentModel(prep.manifest)]]

\* main after line 225: "if not analyze_and_prepare_dataset(): return", then
\* the two builders; an exception of the preparation ends main as well
MainAfterPrepare(prep, art, coreml) ==
  IF prep.report.outcome = "ok"
  THEN [calls |-> <<"analyze_and_prepare_dataset", "create_simple_coreml_model",
                    "create_mock_intelligent_model">>,
        artifacts |-> [mlmodel |-> CreateSimpleCoremlModel(prep.manifest, art, coreml),
                       mock |-> CreateMockIntelligentModel(prep.manifest)]]
  ELSE [calls |-> <<"analyze_and_prepare_dataset">>, artifacts |-> art]

\* ------------------------------------------------------------------- Init
\* The scripts start on a working directory that holds the raw data set and
\* nothing else, or, when the raw data has been removed, possibly the
\* left-overs of an earlier preparation.
StaleDir == [c \in {"idli"} |-> {<<1, "jpg">>}]
StaleManifest == ClassInfo(<<"idli">>)
StaleArtifacts ==
  [mlmodel |-> NoArtifacts.mlmodel, mock |-> CreateMockIntelligentModel(StaleManifest)]

Init ==
  /\ rawExists \in BOOLEAN
  /\ raw \in (IF rawExists THEN RawTrees ELSE {EmptyTree})
  /\ rawOrder \in Orders(DOMAIN raw)
  /\ \/ /\ exists = AllMissing
        /\ tree = NoTrees
        /\ modelsDir = FALSE
        /\ manifest = NoManifest
     \/ /\ ~rawExists
        /\ exists = [s \in SplitNames |-> TRUE]
        /\ tree = [s \in SplitNames |-> StaleDir]
        /\ modelsDir = TRUE
        /\ manifest = StaleManifest
  /\ last = NoReport
  /\ calls = <<>>
  /\ unreadable = {}
  /\ procs = [i \in Invocations |-> IdleProc]
  /\ pool = NoPool
  /\ artifacts = (IF manifest = StaleManifest THEN StaleArtifacts ELSE NoArtifacts)

\* ---------------------------------------------------------------- actions
\* download_datasets.py --setup: setup_directories, create_dataset_structure
SetupDatasets ==
  /\ rawExists' = TRUE
  /\ UNCHANGED <<raw, rawOrder>>
  /\ exists' = [s \in SplitNames |-> TRUE]
  /\ tree' = [s \in SplitNames |->
                [c \in DOMAIN tree[s] \cup indian_food_classes |->
                   IF c \in DOMAIN tree[s] THEN tree[s][c] ELSE {}]]
  /\ modelsDir' = TRUE
  /\ manifest' = manifest
  /\ last' = Report("setup", <<0, 0, 0>>, "ok", FALSE, <<>>, {}, NoAssign)
  /\ calls' = <<"setup_directories", "create_dataset_structure">>
  /\ UNCHANGED <<artifacts, stepVars>>

\* IndianFoodModelTrainer().prepare_dataset_splits(train, val, test)
TrainerPrepare ==
  \E r \in RatioInputs, seed \in 0..(RngStates - 1) :
    \E p \in {PrepareDatasetSplits(rawExists, raw, exists, tree, rawOrder, seed, r)} :
        /\ exists' = p.exists
        /\ tree' = p.tree
        /\ modelsDir' = TRUE
        /\ last' = p.report
        /\ calls' = <<"prepare_dataset_splits">>
        /\ raw' = SourceAfterCopies(raw, p.report.assign)
        /\ UNCHANGED <<rawExists, rawOrder, manifest>>
        /\ UNCHANGED <<artifacts, stepVars>>

\* train_coreml_model.py main: raw check, trainer, train_full_pipeline up to
\* create_data_generators
TrainerMain ==
  \E seed \in 0..(RngStates - 1) :
    IF ~rawExists
    THEN /\ last' = Report("train_main", DefaultRatios, "not_found", FALSE,
                           <<>>, {}, NoAssign)
         /\ calls' = <<>>
         /\ UNCHANGED <<rawExists, raw, rawOrder, exists, tree, modelsDir, manifest>>
         /\ UNCHANGED <<artifacts, stepVars>>
    ELSE \E p \in {IF NeedsSplit(exists, tree)
                   THEN PrepareDatasetSplits(rawExists, raw, exists, tree,
                                             rawOrder, seed, DefaultRatios)
                   ELSE [exists |-> exists, tree |-> tree,
                         report |-> Report("train_main", DefaultRatios, "ok",
                                           FALSE, <<>>, {}, NoAssign)]} :
         \E g \in {IF p.report.outcome = "ok"
                   THEN CreateDataGenerators(p.exists, p.tree, manifest)
                   ELSE [outcome |-> p.report.outcome, manifest |-> manifest]} :
             /\ exists' = p.exists
             /\ tree' = p.tree
             /\ modelsDir' = TRUE
             /\ manifest' = g.manifest
             /\ last' = [p.report EXCEPT !.op = "train_main",
                                         !.outcome = g.outcome]
             /\ calls' = (IF NeedsSplit(exists, tree)
                          THEN <<"prepare_dataset_splits">> ELSE <<>>)
                         \o (IF p.report.outcome = "ok"
                             THEN <<"create_data_generators">> ELSE <<>>)
             /\ raw' = SourceAfterCopies(raw, p.report.assign)
             /\ UNCHANGED <<artifacts, stepVars>>
             /\ UNCHANGED <<rawExists, rawOrder>>

\* simple_trainer.py main: models/ is made, the dataset is prepared and, when
\* that returned True, the two model builders are called
SimpleMain ==
  \E seed \in 0..(RngStates - 1), coreml \in BOOLEAN :
    \E p \in {AnalyzeAndPrepareDataset(rawExists, raw, exists, tree, manifest,
                                      rawOrder, seed)} :
      \E m \in {MainAfterPrepare(p, artifacts, coreml)} :
        /\ exists' = p.exists
        /\ tree' = p.tree
        /\ modelsDir' = TRUE
        /\ manifest' = p.manifest
        /\ last' = p.report
        /\ calls' = m.calls
        /\ artifacts' = m.artifacts
        /\ raw' = SourceAfterCopies(raw, p.report.assign)
        /\ UNCHANGED <<unreadable, procs, pool>>
        /\ UNCHANGED <<rawExists, rawOrder>>

Next == SetupDatasets \/ TrainerPrepare \/ TrainerMain \/ SimpleMain

Spec == Init /\ [][Next]_vars

\* ------------------------------------------------- the worked example tree
\* datasets/raw holding biryani (12 images), idli (8) and dosa (15), and an
\* empty destination
ExampleSource ==
  [c \in {"biryani", "idli", "dosa"} |->
     [isDir |-> TRUE,
      jpg |-> IF c = "biryani" THEN 12 ELSE IF c = "idli" THEN 8 ELSE 15,
      png |-> 0, other |-> 0]]

InitExample ==
  /\ rawExists = TRUE
  /\ raw = ExampleSource
  /\ rawOrder \in Orders(DOMAIN raw)
  /\ exists = AllMissing
  /\ tree = NoTrees
  /\ modelsDir = FALSE
  /\ manifest = NoManifest
  /\ last = NoReport
  /\ calls = <<>>
  /\ unreadable = {}
  /\ procs = [i \in Invocations |-> IdleProc]
  /\ pool = NoPool
  /\ artifacts = NoArtifacts

SpecExample == InitExample /\ [][Next]_vars

\* ----------------------------- two invocations of simple_trainer.py, in steps
\* Each invocation is its own interpreter with its own generator; the steps
\* are the statements of main and analyze_and_prepare_dataset that touch the
\* working directory, and the two invocations take them in any interleaving.
StepTrees ==
  {t \in RawTrees : \A c \in DOMAIN t : t[c].isDir /\ t[c].png = 0}

Other(p) == 3 - p
Running(q) == q.pc \notin {"idle", "done"}
CurrentDir(q) ==
  IF q.pc \in {"rmtree", "mkdir"} THEN SimpleSplitDirs[q.k]
  ELSE IF q.pc \in {"mkdir_train", "copy_train"} THEN "train"
  ELSE "validation"

InitSteps ==
  /\ rawExists \in BOOLEAN
  /\ raw \in (IF rawExists THEN StepTrees ELSE {EmptyTree})
  /\ rawOrder \in Orders(DOMAIN raw)
  /\ exists = AllMissing
  /\ tree = NoTrees
  /\ modelsDir = FALSE
  /\ manifest = NoManifest
  /\ last = NoReport
  /\ calls = <<>>
  /\ unreadable \in {{}} \cup {{<<c, <<1, "jpg">>>>} : c \in DOMAIN raw}
  /\ procs = [i \in Invocations |-> IdleProc]
  /\ pool = NoPool
  /\ artifacts = NoArtifacts

StepFrame ==
  UNCHANGED <<rawExists, raw, rawOrder, last, calls, unreadable, pool, artifacts>>

\* main: "Path('models').mkdir(exist_ok=True)", then the raw check of line 23
StartRun(p) ==
  /\ procs[p].pc = "idle"
  /\ \E seed \in 0..(RngStates - 1) :
       LET o == procs[Other(p)]
           q == [procs[p] EXCEPT !.rng = seed, !.overlapped = Running(o),
                                 !.second = (o.pc # "idle")]
       IN  procs' = [procs EXCEPT
                       ![p] = IF rawExists
                              THEN [q EXCEPT !.pc = "rmtree", !.k = 1]
                              ELSE Ended(q, "False"),
                       ![Other(p)] = [o EXCEPT !.overlapped = Running(o)]]
  /\ modelsDir' = TRUE
  /\ UNCHANGED <<exists, tree, manifest>>
  /\ StepFrame

\* lines 29-30: the split directory is removed when it is there
RmtreeStep(p) ==
  /\ procs[p].pc = "rmtree"
  /\ \E r \in {IF exists[CurrentDir(procs[p])]
               THEN Rmtree(exists, tree, CurrentDir(procs[p]))
               ELSE [exists |-> exists, tree |-> tree]} :
       /\ exists' = r.exists
       /\ tree' = r.tree
  /\ procs' = [procs EXCEPT ![p].pc = "mkdir"]
  /\ UNCHANGED <<modelsDir, manifest>>
  /\ StepFrame

\* line 31: split_dir.mkdir(parents=True) raises when the directory is there
MkdirSplit(p) ==
  /\ procs[p].pc = "mkdir"
  /\ LET q == procs[p]
         s == CurrentDir(q)
     IN  IF exists[s]
         THEN /\ procs' = [procs EXCEPT ![p] = Ended(q, "FileExistsError")]
              /\ UNCHANGED <<exists, tree>>
         ELSE /\ exists' = [exists EXCEPT ![s] = TRUE]
              /\ tree' = tree
              /\ procs' = [procs EXCEPT ![p] =
                             IF q.k < Len(SimpleSplitDirs)
                             THEN [q EXCEPT !.pc = "rmtree", !.k = q.k + 1]
                             ELSE [q EXCEPT !.pc = "analyze", !.k = 0]]
  /\ UNCHANGED <<modelsDir, manifest>>
  /\ StepFrame

\* lines 33-45: the categories with enough images, in iterdir order
Analyze(p) ==
  /\ procs[p].pc = "analyze"
  /\ LET dirs == SelectSeq(rawOrder, LAMBDA n : raw[n].isDir)
         categories == SelectSeq(dirs, LAMBDA n : Enough(Len(ImageFiles(raw[n]))))
     IN  procs' = [procs EXCEPT ![p] =
                     [@ EXCEPT !.cats = categories,
                               !.ci = IF categories = <<>> THEN 0 ELSE 1,
                               !.pc = IF categories = <<>> THEN "manifest"
                                      ELSE "shuffle"]]
  /\ UNCHANGED <<exists, tree, modelsDir, manifest>>
  /\ StepFrame

\* lines 52-60: glob, shuffle, split_point and the two slices of one category
ShuffleSplit(p) ==
  /\ procs[p].pc = "shuffle"
  /\ LET q == procs[p]
         c == q.cats[q.ci]
         sh == Shuffle(ImageFiles(raw[c]), q.rng)
         lists == SimpleLists(sh.list)
     IN  procs' = [procs EXCEPT ![p] =
                     [q EXCEPT !.rng = sh.rng, !.lists = lists,
                               !.assign = [n \in DOMAIN q.assign \cup {c} |->
                                             IF n = c THEN lists ELSE q.assign[n]],
                               !.pc = "mkdir_train"]]
  /\ UNCHANGED <<exists, tree, modelsDir, manifest>>
  /\ StepFrame

\* lines 65-66: category_dir.mkdir(exist_ok=True) raises when the split
\* directory is not there
MkdirCategory(p) ==
  /\ procs[p].pc \in {"mkdir_train", "mkdir_val"}
  /\ LET q == procs[p]
         s == CurrentDir(q)
     IN  IF ~exists[s]
         THEN /\ procs' = [procs EXCEPT ![p] = Ended(q, "FileNotFoundError")]
              /\ tree' = tree
         ELSE /\ tree' = [tree EXCEPT ![s] = MkCategoryDir(@, q.cats[q.ci])]
              /\ procs' = [procs EXCEPT ![p].pc =
                             IF q.pc = "mkdir_train" THEN "mkdir_val"
                             ELSE "copy_train"]
  /\ UNCHANGED <<exists, modelsDir, manifest>>
  /\ StepFrame

\* lines 69-70 and 72-73: one of the two copy loops of the category
CopyList(p) ==
  /\ procs[p].pc \in {"copy_train", "copy_val"}
  /\ LET q == procs[p]
         s == CurrentDir(q)
         files == IF q.pc = "copy_train" THEN q.lists.train ELSE q.lists.val
     IN  \E cp \in {CopyEach(tree[s], q.cats[q.ci], files, 1, unreadable)} :
           /\ tree' = [tree EXCEPT ![s] = cp.dir]
           /\ procs' = [procs EXCEPT ![p] =
                          IF cp.outcome # "ok" THEN Ended(q, cp.outcome)
                          ELSE IF q.pc = "copy_train"
                               THEN [q EXCEPT !.pc = "copy_val"]
                          ELSE IF q.ci < Len(q.cats)
                               THEN [q EXCEPT !.pc = "shuffle", !.ci = q.ci + 1,
                                              !.lists = NoLists]
                          ELSE [q EXCEPT !.pc = "manifest", !.lists = NoLists]]
  /\ UNCHANGED <<exists, modelsDir, manifest>>
  /\ StepFrame

\* lines 78-88: class_info is dumped and True returned
WriteManifest(p) ==
  /\ procs[p].pc = "manifest"
  /\ manifest' = ClassInfo(procs[p].cats)
  /\ procs' = [procs EXCEPT ![p] = Ended(procs[p], "True")]
  /\ UNCHANGED <<exists, tree, modelsDir>>
  /\ StepFrame

NextSteps ==
  \E p \in Invocations :
    \/ StartRun(p)
    \/ RmtreeStep(p)
    \/ MkdirSplit(p)
    \/ Analyze(p)
    \/ ShuffleSplit(p)
    \/ MkdirCategory(p)
    \/ CopyList(p)
    \/ WriteManifest(p)

SpecSteps == InitSteps /\ [][NextSteps]_vars

\* --------------------------------- lines 102-113 on one category, alone
\* The shuffle and the three slices of prepare_dataset_splits applied to one
\* raw category with enough images, for every pair of non-negative ratios up
\* to MaxRatioTenths (test_ratio is not read by the method).
InitSlices ==
  /\ rawExists = TRUE
  /\ raw \in {t \in RawTrees : DOMAIN t = {"biryani"}}
  /\ rawOrder \in Orders(DOMAIN raw)
  /\ exists = AllMissing
  /\ tree = NoTrees
  /\ modelsDir = FALSE
  /\ manifest = NoManifest
  /\ last = NoReport
  /\ calls = <<>>
  /\ unreadable = {}
  /\ procs = [i \in Invocations |-> IdleProc]
  /\ pool = NoPool
  /\ artifacts = NoArtifacts

SliceCategory ==
  /\ last = NoReport
  /\ \E c \in DOMAIN raw, tr \in 0..MaxRatioTenths, vr \in 0..MaxRatioTenths,
        seed \in 0..(RngStates - 1) :
       /\ raw[c].isDir
       /\ ~TooFew(Len(ImageFiles(raw[c])))
       /\ last' = Report("slices", <<tr, vr, 10 - tr - vr>>, "ok", FALSE, <<c>>, {},
                         [n \in {c} |->
                            SplitLists(Shuffle(ImageFiles(raw[c]), seed).list, tr, vr)])
  /\ UNCHANGED <<rawExists, raw, rawOrder, exists, tree, modelsDir, manifest, calls>>
  /\ UNCHANGED <<artifacts, stepVars>>

NextSlices == SliceCategory

SpecSlices == InitSlices /\ [][NextSlices]_vars

\* --------------------------------------- one run with overlapping copies
\* The run clears the split directories, fixes its assignment and makes the
\* category directories as the script does; its copy2 calls are then taken
\* from the queue in the order of the loops by up to PoolWorkers workers, and
\* a copy in flight may finish before or after any other one in flight.
InitPool ==
  /\ rawExists = TRUE
  /\ raw \in StepTrees
  /\ rawOrder \in Orders(DOMAIN raw)
  /\ exists = AllMissing
  /\ tree = NoTrees
  /\ modelsDir = FALSE
  /\ manifest = NoManifest
  /\ last = NoReport
  /\ calls = <<>>
  /\ unreadable = {}
  /\ procs = [i \in Invocations |-> IdleProc]
  /\ pool = NoPool
  /\ artifacts = NoArtifacts

PoolFrame ==
  UNCHANGED <<rawExists, raw, rawOrder, modelsDir, manifest, last, calls,
              unreadable, procs, artifacts>>

\* everything of the run but its copies; `expected` is what the script's own
\* loops leave behind
PoolStart ==
  /\ ~pool.started
  /\ \E script \in {"trainer", "simple"}, seed \in 0..(RngStates - 1),
        r \in RatioInputs :
       \E run \in {IF script = "simple"
                   THEN SimpleSplit(raw, exists, tree, rawOrder, seed)
                   ELSE PrepareDatasetSplits(rawExists, raw, exists, tree,
                                             rawOrder, seed, r)} :
         /\ script = "simple" => r = DefaultRatios
         /\ run.report.split
         /\ LET splits == IF script = "simple" THEN SimpleSplitDirs
                          ELSE ReachedSplits
                cleared == ClearDirs(exists, tree,
                             IF script = "simple" THEN Range(SimpleSplitDirs)
                             ELSE {TrainerPaths[a] : a \in DOMAIN TrainerPaths})
            IN  /\ exists' = cleared.exists
                /\ tree' = [s \in SplitNames |->
                              PlanDirs(run.report.kept, splits, s)]
                /\ pool' = [started |-> TRUE,
                            queue |-> PlanCopies(run.report.kept,
                                                 run.report.assign, splits, 1, 1),
                            next |-> 1, inflight |-> {},
                            expected |-> run.tree, crossed |-> FALSE]
  /\ PoolFrame

\* a free worker takes the next copy of the queue
Dispatch ==
  /\ pool.started
  /\ pool.next <= Len(pool.queue)
  /\ Cardinality(pool.inflight) < PoolWorkers
  /\ pool' = [pool EXCEPT !.inflight = @ \cup {pool.next}, !.next = @ + 1]
  /\ UNCHANGED <<exists, tree>>
  /\ PoolFrame

\* a copy in flight is written: shutil.copy2(file_path, dir / file_path.name)
Complete ==
  /\ pool.started
  /\ \E i \in pool.inflight :
       LET t == pool.queue[i]
       IN  /\ tree' = [tree EXCEPT ![t[1]] = CopyFiles(@, t[2], <<t[3]>>)]
           /\ pool' = [pool EXCEPT
                         !.inflight = @ \ {i},
                         !.crossed = @ \/ \E j \in pool.inflight :
                                            j < i /\ pool.queue[j][2] # t[2]]
  /\ UNCHANGED exists
  /\ PoolFrame

NextPool == PoolStart \/ Dispatch \/ Complete

SpecPool == InitPool /\ [][NextPool]_vars


\* ------------------------------------------------ ml/training/train_model.py
\* data_dir of IndianFoodTrainer: entries named after three classes, each a
\* plain file or a directory with 0..MaxImages jpg files; `unreadable` holds
\* the images cv2 cannot load (the except branch of line 52 skips them)
ClassDirs == {"biryani", "dosa", "idli"}
ImageDirShapes ==
  [isDir : {TRUE}, jpg : 0..MaxImages, png : {0}, other : {0}] \cup {PlainFile}

\* the images of one class directory that load, in glob order
Loaded(dir, bad, c) ==
  SelectSeq(Glob(dir[c], "jpg"), LAMBDA f : <<c, f[1]>> \notin bad)

\* labels.append(class_name) for every image loaded, directory by directory
RECURSIVE LabelsOf(_, _, _)
LabelsOf(dir, bad, names) ==
  IF names = <<>> THEN <<>>
  ELSE [i \in 1..Len(Loaded(dir, bad, Head(names))) |-> Head(names)]
       \o LabelsOf(dir, bad, Tail(names))

\* load_data: class_names in iterdir order, one name per directory; the
\* LabelEncoder numbers the distinct labels in sorted order; num_classes is
\* the number of directories
LoadData(dir, order, bad) ==
  LET class_names == SelectSeq(order, LAMBDA c : dir[c].isDir)
      labels == LabelsOf(dir, bad, class_names)
      classes_ == Sorted(Range(labels))
  IN  [class_names |-> class_names,
       labels |-> labels,
       classes_ |-> classes_,
       y_encoded |-> [i \in 1..Len(labels) |-> IndexOf(classes_, labels[i]) - 1],
       num_classes |-> Len(class_names)]

\* train_test_split(test_size=0.3, stratify=y), then test_size=0.5 on the 30%:
\* with this many images of every labelled class both stratified splits have
\* two members of each class to divide
MinStratified == 7
CanSplit(labels) ==
  /\ labels # <<>>
  /\ \A c \in Range(labels) :
       Len(SelectSeq(labels, LAMBDA l : l = c)) >= MinStratified

NoMetadata == [metadata |-> [written |-> FALSE, classes |-> <<>>, num_classes |-> 0]]

\* save_model_for_coreml: 'classes': self.class_names, 'num_classes'
SaveModelForCoreml(ld) ==
  [metadata |-> [written |-> TRUE, classes |-> ld.class_names,
                 num_classes |-> ld.num_classes]]

\* train_complete_pipeline: load_data, the two train_test_split calls (which
\* raise ValueError on too few images) and the training (which may raise for
\* reasons outside the data), then the save
TrainCompletePipeline(dirExists, dir, order, bad, trains) ==
  IF ~dirExists
  THEN [outcome |-> "FileNotFoundError", loaded |-> LoadData(EmptyTree, <<>>, {}),
        artifacts |-> NoMetadata]
  ELSE LET ld == LoadData(dir, order, bad)
       IN  IF ~CanSplit(ld.labels)
           THEN [outcome |-> "ValueError", loaded |-> ld, artifacts |-> NoMetadata]
           ELSE IF ~trains
           THEN [outcome |-> "Exception", loaded |-> ld, artifacts |-> NoMetadata]
           ELSE [outcome |-> "ok", loaded |-> ld, artifacts |-> SaveModelForCoreml(ld)]

InitMetadata ==
  /\ rawExists \in BOOLEAN
  /\ raw \in (IF rawExists THEN [ClassDirs -> ImageDirShapes] ELSE {EmptyTree})
  /\ rawOrder \in Orders(DOMAIN raw)
  /\ exists = AllMissing
  /\ tree = NoTrees
  /\ modelsDir = FALSE
  /\ manifest = NoManifest
  /\ last = NoReport
  /\ calls = <<>>
  /\ unreadable \in {{}} \cup {{<<c, 1>>} : c \in {d \in DOMAIN raw : raw[d].jpg >= 1}}
  /\ procs = [p \in Invocations |-> IdleProc]
  /\ pool = NoPool
  /\ artifacts = NoMetadata

\* train_model.py main: IndianFoodTrainer(...).train_complete_pipeline()
TrainModelMain ==
  /\ last = NoReport
  /\ \E trains \in BOOLEAN :
       \E r \in {TrainCompletePipeline(rawExists, raw, rawOrder, unreadable, trains)} :
         /\ last' = [op |-> "train_complete_pipeline", outcome |-> r.outcome,
                     loaded |-> r.loaded]
         /\ artifacts' = r.artifacts
         /\ modelsDir' = TRUE
         /\ calls' = <<"load_data">>
                      \o (IF r.outcome = "ok" THEN <<"save_model_for_coreml">> ELSE <<>>)
  /\ UNCHANGED <<rawExists, raw, rawOrder, exists, tree, manifest, unreadable,
                 procs, pool>>

NextMetadata == TrainModelMain
SpecMetadata == InitMetadata /\ [][NextMetadata]_vars


\* --------------------------------------------------- data/setup_datasets.py
\* main, lines 242-248: the steps in the order they are called
SetupSteps ==
  <<"setup_directories", "download_kaggle_dataset",
    "download_indian_nutrient_database", "setup_calorie_ninjas_api",
    "create_food_mapping", "process_nutrition_data", "create_requirements_txt">>

\* variant: process_nutrition_data without its try/except
GuardedExceptProcess(step) ==
  step \in {"download_kaggle_dataset", "download_indian_nutrient_database",
            "setup_calorie_ninjas_api", "create_food_mapping"}

\* the functions whose whole body is inside "try: ... except Exception"
Guarded(step) ==
  step \in {"download_kaggle_dataset", "download_indian_nutrient_database",
            "setup_calorie_ninjas_api", "create_food_mapping",
            "process_nutrition_data"}

DataFiles ==
  {"raw/images", "raw/nutrition/csv", "raw/nutrition/indb_data.json",
   "raw/nutrition/api_config.json", "processed/nutrition/food_mapping.json",
   "processed/nutrition/standardized_nutrition.json", "requirements.txt"}

\* what a step writes with open(path, 'w') and json.dump / f.write
Target(step) ==
  CASE step = "download_indian_nutrient_database" -> "raw/nutrition/indb_data.json"
    [] step = "setup_calorie_ninjas_api" -> "raw/nutrition/api_config.json"
    [] step = "create_food_mapping" -> "processed/nutrition/food_mapping.json"
    [] step = "process_nutrition_data" ->
         "processed/nutrition/standardized_nutrition.json"
    [] OTHER -> "requirements.txt"

\* how the body of a step may go: to its end, or up to a statement that raises
Courses(step) ==
  CASE step = "setup_directories" -> {"ok", "mkdir_raises"}
    [] step = "download_kaggle_dataset" ->
         {"ok", "authenticate_raises", "images_raise", "nutrition_raises"}
    [] OTHER -> {"ok", "open_raises", "dump_raises"}

\* the file system after a step that took the given course, and whether an
\* exception left the statements of the step
RunStep(step, fs, course) ==
  CASE step = "setup_directories" ->
         [fs |-> [fs EXCEPT !.dirs = (course = "ok") \/ fs.dirs],
          raised |-> course # "ok"]
    [] step = "download_kaggle_dataset" ->
         [fs |-> [fs EXCEPT
                    !.files = [f \in DataFiles |->
                      IF f = "raw/images" /\ course \in {"ok", "nutrition_raises"}
                        THEN "valid"
                      ELSE IF f = "raw/images" /\ course = "images_raise"
                        THEN "partial"
                      ELSE IF f = "raw/nutrition/csv" /\ course = "ok"
                        THEN "valid"
                      ELSE IF f = "raw/nutrition/csv" /\ course = "nutrition_raises"
                        THEN "partial"
                      ELSE fs.files[f]]],
          raised |-> course # "ok"]
    [] step = "process_nutrition_data"
         /\ fs.files["raw/nutrition/indb_data.json"] # "valid" ->
         \* open(..., 'r') or json.load raises before anything is written
         [fs |-> fs, raised |-> TRUE]
    [] OTHER ->
         [fs |-> [fs EXCEPT !.files[Target(step)] =
                    IF course = "ok" THEN "valid"
                    ELSE IF course = "dump_raises" THEN "partial"
                    ELSE @],
          raised |-> course # "ok"]

NoDataFiles == [dirs |-> FALSE, files |-> [f \in DataFiles |-> "absent"]]
SetupRunning ==
  [op |-> "setup_datasets_main", outcome |-> "running", failed |-> {},
   raised |-> "none"]

\* the directory before the run: fresh, or as a complete earlier run left it
InitSetup ==
  /\ rawExists = FALSE
  /\ raw = EmptyTree
  /\ rawOrder = <<>>
  /\ exists = AllMissing
  /\ tree = NoTrees
  /\ modelsDir = FALSE
  /\ manifest = NoManifest
  /\ last = SetupRunning
  /\ calls = <<>>
  /\ unreadable = {}
  /\ procs = [p \in Invocations |-> IdleProc]
  /\ pool = NoPool
  /\ artifacts \in {NoDataFiles,
                    [dirs |-> TRUE, files |-> [f \in DataFiles |-> "valid"]]}

\* one call of main's sequence: an exception inside a guarded function is
\* printed by its except branch and the function returns; any other
\* exception leaves main
Call(step) ==
  /\ last.op = "setup_datasets_main"
  /\ last.outcome = "running"
  /\ Len(calls) < Len(SetupSteps)
  /\ SetupSteps[Len(calls) + 1] = step
  /\ \E course \in Courses(step) :
       \E r \in {RunStep(step, artifacts, course)} :
         /\ calls' = Append(calls, step)
         /\ artifacts' = r.fs
         /\ last' = (IF ~r.raised THEN last
                     ELSE IF Guarded(step)
                       THEN [last EXCEPT !.failed = @ \cup {step}]
                       ELSE [last EXCEPT !.outcome = "Exception", !.raised = step])
  /\ UNCHANGED <<rawExists, raw, rawOrder, exists, tree, modelsDir, manifest,
                 unreadable, procs, pool>>

SetupDirectories == Call("setup_directories")
DownloadKaggleDataset == Call("download_kaggle_dataset")
DownloadIndianNutrientDatabase == Call("download_indian_nutrient_database")
SetupCalorieNinjasApi == Call("setup_calorie_ninjas_api")
CreateFoodMapping == Call("create_food_mapping")
ProcessNutritionData == Call("process_nutrition_data")
CreateRequirementsTxt == Call("create_requirements_txt")

\* lines 250-256: print("Dataset setup complete!") and the next steps
SetupComplete ==
  /\ last.op = "setup_datasets_main"
  /\ last.outcome = "running"
  /\ calls = SetupSteps
  /\ last' = [last EXCEPT !.outcome = "complete"]
  /\ UNCHANGED <<rawExists, raw, rawOrder, exists, tree, modelsDir, manifest,
                 calls, unreadable, procs, pool, artifacts>>

NextSetup ==
  \/ SetupDirectories
  \/ DownloadKaggleDataset
  \/ DownloadIndianNutrientDatabase
  \/ SetupCalorieNinjasApi
  \/ CreateFoodMapping
  \/ ProcessNutritionData
  \/ CreateRequirementsTxt
  \/ SetupComplete

\* main is straight-line code: the statement it has reached is executed
SpecSetup == InitSetup /\ [][NextSetup]_vars /\ WF_vars(NextSetup)

\* ---------------------------------------------------- terms of the claims
SourceDirs == {c \in DOMAIN raw : raw[c].isDir}
SourceImages(c) ==
  {<<i, "jpg">> : i \in 1..raw[c].jpg} \cup {<<i, "png">> : i \in 1..raw[c].png}
SourceCount(c) == raw[c].jpg + raw[c].png
RetainedCats == {c \in SourceDirs : SourceCount(c) >= MinSamples}
FilesIn(s, c) == IF c \in DOMAIN tree[s] THEN tree[s][c] ELSE {}
Floor10(n, tenths) == (n * tenths) \div 10
TrainerOps == {"prepare", "train_main"}
RunOps == {"prepare", "train_main", "simple"}
AssignedTree(s) ==
  [c \in Range(last.kept) |->
     Range(IF s = "train" THEN last.assign[c].train
           ELSE IF s = "validation" THEN last.assign[c].val
           ELSE last.assign[c].test)]

\* C1: after a split run with valid ratios, for every retained category the
\* train, validation and test file sets are pairwise disjoint, their sizes
\* sum to the number of filtered source images and their union is that set.
C1_PartitionComplete ==
  (last.split /\ ValidRatios(last.ratios)) =>
    \A c \in RetainedCats :
      LET T == FilesIn("train", c)
          V == FilesIn("validation", c)
          E == FilesIn("test", c)
      IN  /\ T \cap V = {} /\ T \cap E = {} /\ V \cap E = {}
          /\ Cardinality(T) + Cardinality(V) + Cardinality(E) = SourceCount(c)
          /\ T \cup V \cup E = SourceImages(c)

\* C2: two completed split runs of the same script over the same source tree
\* with the same valid ratios assign every file to the same split and write
\* the same manifest content.
C2_Determinism ==
  [][(last.split /\ last.outcome = "ok" /\ last'.split /\ last'.outcome = "ok"
        /\ last'.op = last.op /\ last'.ratios = last.ratios
        /\ ValidRatios(last.ratios))
       => (last'.assign = last.assign /\ manifest' = manifest)]_vars

\* C3: after prepare_dataset_splits with valid ratios, every retained
\* category with N images has floor(N * train_ratio) train files,
\* floor(N * val_ratio) validation files and the remaining files in test.
C3_RatioSizes ==
  (last.split /\ last.op \in TrainerOps /\ ValidRatios(last.ratios)) =>
    \A c \in RetainedCats :
      LET N == SourceCount(c)
          nt == Floor10(N, last.ratios[1])
          nv == Floor10(N, last.ratios[2])
      IN  /\ Cardinality(FilesIn("train", c)) = nt
          /\ Cardinality(FilesIn("validation", c)) = nv
          /\ Cardinality(FilesIn("test", c)) = N - nt - nv

\* the list of category c is cut at the boundaries b1 and b2
CutAt(c, b1, b2) ==
  LET a == last.assign[c]
      n == Len(a.shuffled)
  IN  /\ n = SourceCount(c)
      /\ Range(a.shuffled) = SourceImages(c)
      /\ a.train = SubSeq(a.shuffled, 1, b1)
      /\ a.val = SubSeq(a.shuffled, b1 + 1, b2)
      /\ a.test = SubSeq(a.shuffled, b2 + 1, n)

C5_Filtering ==
  last.split =>
    \A c \in SourceDirs :
      SourceCount(c) < MinSamples =>
        /\ \A s \in SplitNames : c \notin DOMAIN tree[s]
        /\ last.op = "simple" =>
             (c \notin DOMAIN manifest.class_to_idx /\ c \notin Range(manifest.classes))

\* C6: a category the splitter examines is kept if and only if it has at
\* least MinSamples images; simple_trainer examines every category, so its
\* output directories and manifest classes are exactly those categories.
C6_Threshold ==
  last.split =>
    /\ \A c \in Range(last.kept) : c \in SourceDirs /\ SourceCount(c) >= MinSamples
    /\ \A c \in last.skipped : c \in SourceDirs /\ SourceCount(c) < MinSamples
    /\ last.op = "simple" =>
         /\ Range(last.kept) = RetainedCats
         /\ last.skipped = SourceDirs \ RetainedCats
         /\ DOMAIN tree["train"] = RetainedCats
         /\ DOMAIN tree["validation"] = RetainedCats
         /\ Range(manifest.classes) = RetainedCats

\* a run kept a category of exactly MinSamples images and dropped one of
\* MinSamples - 1
C6_Witness ==
  /\ last.split /\ last.op = "simple"
  /\ \E c \in Range(last.kept) : SourceCount(c) = MinSamples
  /\ \E c \in last.skipped : SourceCount(c) = MinSamples - 1

\* C7: in the manifest a run has written, the keys of class_to_idx are the
\* retained category names, each index is the position of the name in the
\* sorted list of retained names, and the indices are 0..num_classes-1.
C7_ManifestOrdering ==
  (manifest.written /\ last.op \in {"simple", "train_main"} /\ last.outcome = "ok") =>
    LET idx == manifest.class_to_idx
        n == IF manifest.top = "class_info" THEN manifest.num_classes
             ELSE Cardinality(DOMAIN idx)
    IN  /\ DOMAIN idx = RetainedCats
        /\ \A c \in DOMAIN idx : idx[c] = IndexOf(Sorted(RetainedCats), c) - 1
        /\ {idx[c] : c \in DOMAIN idx} = 0..(n - 1)

\* C8: after a completed split run the train, validation and test trees
\* hold exactly what the run assigned; nothing that was there before is left.
C8_NoStaleEntries ==
  (last.split /\ last.outcome = "ok") =>
    \A s \in SplitNames :
      IF last.op = "simple" /\ s = "test" THEN tree[s] = EmptyTree
      ELSE exists[s] /\ tree[s] = AssignedTree(s)

\* C9: a completed split run that follows a completed run of the same script
\* with the same ratios over the same source leaves the destination as it was.
C9_IdempotentRerun ==
  [][(last.split /\ last.outcome = "ok" /\ last'.split /\ last'.outcome = "ok"
        /\ last'.op = last.op /\ last'.ratios = last.ratios
        /\ ValidRatios(last.ratios))
       => (tree' = tree /\ exists' = exists)]_vars

\* C10: a run that finds the source directory missing ends with an error
\* outcome and leaves the three trees and the manifest as they were.
C10_MissingSource ==
  [][(~rawExists /\ last'.op \in RunOps)
       => /\ last'.outcome \in {"TypeError", "not_found", "False"}
          /\ ~last'.split
          /\ exists' = exists /\ tree' = tree /\ manifest' = manifest]_vars

\* a run has aborted on a missing source next to left-over trees and manifest
C10_Witness ==
  /\ ~rawExists /\ last.op \in RunOps
  /\ last.outcome \in {"TypeError", "not_found", "False"}
  /\ tree = [s \in SplitNames |-> StaleDir]
  /\ manifest = StaleManifest

\* C11: a split request over an existing source whose ratios are negative or
\* do not sum to 1 fails with InvalidConfigurationError and leaves every
\* split directory and every file as it was.
C11_InvalidRatios ==
  [][(rawExists /\ SourceDirs # {}
        /\ last'.op = "prepare" /\ ~ValidRatios(last'.ratios))
       => /\ last'.outcome = "InvalidConfigurationError"
          /\ exists' = exists /\ tree' = tree]_vars

\* C13: a script run ends with exit code 0 when at least one category is
\* retained, and with a non-zero exit code when the source directory is
\* missing or no category reaches the threshold.
C13_ExitCodes ==
  last.op \in {"simple", "train_main"} =>
    \A e \in ExitCodes(last) :
      /\ (rawExists /\ RetainedCats # {}) => e = 0
      /\ (~rawExists \/ RetainedCats = {}) => e # 0

\* C14: the value a split run that excluded a category returns to its caller
\* is a summary that contains every category the run excluded.
C14_SummaryReturned ==
  (last.split /\ last.op \in {"prepare", "simple"} /\ last.skipped # {}) =>
    LET v == ReturnValue(last)
    IN  /\ v \notin {"True", "False", "None", "raised"}
        /\ last.skipped \subseteq v

\* C15: after a split run with valid ratios, for every retained category c and every split s,
\* the files of destination/s/c are exactly the images the run assigned to s,
\* each under the file name it has in the source.
C15_SameFilename ==
  (last.split /\ ValidRatios(last.ratios)) =>
    \A c \in Range(last.kept) : \A s \in SplitNames :
      FilesIn(s, c) = AssignedTree(s)[c]

\* C16: a split run at ratios (0.8, 0.2, 0.0) over biryani (12 images), idli
\* (8) and dosa (15) leaves idli out, biryani with 9 train and 3 validation
\* files, dosa with 12 train and 3 validation files, and the manifest it
\* writes maps biryani to 0 and dosa to 1.
C16_WorkedExample ==
  (raw = ExampleSource /\ last.split /\ last.op \in {"prepare", "simple"}
     /\ last.ratios = <<8, 2, 0>>) =>
    /\ "idli" \notin Range(last.kept)
    /\ "idli" \notin DOMAIN tree["train"] \cup DOMAIN tree["validation"]
    /\ Cardinality(FilesIn("train", "biryani")) = 9
    /\ Cardinality(FilesIn("validation", "biryani")) = 3
    /\ Cardinality(FilesIn("train", "dosa")) = 12
    /\ Cardinality(FilesIn("validation", "dosa")) = 3
    /\ last.op = "simple" =>
         manifest.class_to_idx = [c \in {"biryani", "dosa"} |->
                                    IF c = "biryani" THEN 0 ELSE 1]

\* C12: a run of simple_trainer on its own completes, and copies every image
\* it can open of every category with enough images, also when one image of
\* the source cannot be opened.
C12_CopyFailureNonFatal ==
  \A p \in Invocations :
    (rawExists /\ procs[p].pc = "done" /\ procs[Other(p)].pc = "idle") =>
      /\ procs[p].outcome = "True"
      /\ \A c \in RetainedCats : \A f \in SourceImages(c) :
           <<c, f>> \notin unreadable =>
             f \in FilesIn("train", c) \cup FilesIn("validation", c)

\* the train directory is missing or has no entry
TrainEmpty == ~exists["train"] \/ DOMAIN tree["train"] = {}

\* what invocation q assigned to split s
ProcTree(q, s) ==
  [c \in Range(q.cats) |->
     Range(IF s = "train" THEN q.assign[c].train ELSE q.assign[c].val)]

\* C17: two invocations on one destination are unsafe only side by side: when
\* they ran one after the other, both returned True and the destination and
\* the manifest are those of the later one (C17_Witness is an interleaving
\* after which the destination is the assignment of neither).
C17_SerialRunsSafe ==
  (rawExists /\ unreadable = {}
     /\ \A p \in Invocations : procs[p].pc = "done" /\ ~procs[p].overlapped) =>
    \A p \in Invocations :
      /\ procs[p].outcome = "True"
      /\ procs[p].second =>
           /\ tree["train"] = ProcTree(procs[p], "train")
           /\ tree["validation"] = ProcTree(procs[p], "validation")
           /\ manifest = ClassInfo(procs[p].cats)

\* two overlapping invocations have both returned True and an image is in
\* train and in validation, so the destination is the assignment of neither
C17_Witness ==
  /\ unreadable = {}
  /\ \A p \in Invocations :
       /\ procs[p].pc = "done" /\ procs[p].outcome = "True" /\ procs[p].overlapped
       /\ tree["train"] # ProcTree(procs[p], "train")
       /\ tree["validation"] # ProcTree(procs[p], "validation")
  /\ \E c \in RetainedCats :
       FilesIn("train", c) \cap FilesIn("validation", c) # {}

PoolDone ==
  pool.started /\ pool.next > Len(pool.queue) /\ pool.inflight = {}

C21_SlicesPartition ==
  last.op = "slices" =>
    \A c \in DOMAIN last.assign :
      LET a == last.assign[c]
      IN  /\ Range(a.shuffled) = SourceImages(c)
          /\ Len(a.shuffled) = SourceCount(c)
          /\ a.train \o a.val \o a.test = a.shuffled
          /\ Range(a.train) \cap Range(a.val) = {}
          /\ Range(a.train) \cap Range(a.test) = {}
          /\ Range(a.val) \cap Range(a.test) = {}

\* a list has been cut with ratios that sum to more than 1: the validation
\* slice is cut short by the end of the list and the test slice is empty
C21_Witness ==
  /\ last.op = "slices"
  /\ last.ratios[1] + last.ratios[2] > 10
  /\ \E c \in DOMAIN last.assign :
       LET a == last.assign[c]
       IN  /\ a.train # <<>> /\ a.val # <<>> /\ a.test = <<>>
           /\ Len(a.val) < IntTimes(Len(a.shuffled), last.ratios[2])

\* C22: after a split run with the built-in ratios, every category with at
\* least MinSamples images has at least one file in train and in validation
\* and, for the trainer, in test.
C22_EverySplitNonEmpty ==
  (last.split /\ (last.op = "simple"
                    \/ (last.op \in TrainerOps /\ last.ratios = DefaultRatios))) =>
    \A c \in RetainedCats :
      /\ FilesIn("train", c) # {}
      /\ FilesIn("validation", c) # {}
      /\ last.op \in TrainerOps => FilesIn("test", c) # {}

\* C23: a split run, completed or aborted, leaves the source as it was: the
\* raw directory, its entries and the files in them.
C23_SourceUntouched ==
  [][(last'.op \in RunOps)
       => (rawExists' = rawExists /\ raw' = raw /\ rawOrder' = rawOrder)]_vars

\* a split run, aborted or completed, has copied files out of a category of
\* the source with enough images
C23_Witness ==
  /\ last.split /\ last.outcome \in {"AttributeError", "ok"}
  /\ \E c \in Range(last.kept) :
       /\ FilesIn("train", c) # {}
       /\ FilesIn("train", c) \subseteq SourceImages(c)
       /\ SourceCount(c) >= MinSamples

\* C24: in a run of simple_trainer.py the two builders are called only after
\* analyze_and_prepare_dataset has written the manifest in that run, and what
\* they store are the classes of that manifest; when the preparation fails,
\* no builder is called and the model artifacts stay as they were.
C24_ManifestReadAfterWrite ==
  [][(last'.op = "simple")
       => IF last'.outcome = "ok"
          THEN /\ calls' = <<"analyze_and_prepare_dataset",
                             "create_simple_coreml_model",
                             "create_mock_intelligent_model">>
               /\ manifest' = ClassInfo(last'.kept)
               /\ artifacts'.mock.written
               /\ artifacts'.mock.classes = manifest'.classes
               /\ artifacts'.mlmodel # artifacts.mlmodel
                    => artifacts'.mlmodel.classes = manifest'.classes
          ELSE /\ calls' = <<"analyze_and_prepare_dataset">>
               /\ artifacts' = artifacts]_vars

\* one run has stored its retained categories in both artifacts; another run
\* has failed next to the artifacts of an earlier preparation
C24_Witness ==
  \/ /\ last.op = "simple" /\ last.outcome = "ok"
     /\ artifacts.mlmodel.written
     /\ artifacts.mock.classes = artifacts.mlmodel.classes
     /\ artifacts.mock.classes # <<>>
     /\ Range(artifacts.mock.classes) = RetainedCats
  \/ /\ last.op = "simple" /\ last.outcome = "False"
     /\ artifacts = StaleArtifacts
     /\ calls = <<"analyze_and_prepare_dataset">>

\* C25: the metadata saved by save_model_for_coreml agrees with the label
\* encoding of the training data: num_classes is the number of distinct
\* labels of the loaded images, and the class at position i of 'classes' is
\* the class the encoder gave index i, whatever the order of the directories.
C25_MetadataMatchesEncoding ==
  (last.op = "train_complete_pipeline" /\ artifacts.metadata.written)
    => /\ artifacts.metadata.num_classes = Cardinality(Range(last.loaded.labels))
       /\ \A i \in 1..Len(artifacts.metadata.classes) :
            /\ i <= Len(last.loaded.classes_)
            /\ artifacts.metadata.classes[i] = last.loaded.classes_[i]

\* the five steps the containment is claimed for
ContainedSteps ==
  {"download_kaggle_dataset", "download_indian_nutrient_database",
   "setup_calorie_ninjas_api", "create_food_mapping", "process_nutrition_data"}

\* C26: a failure inside download_kaggle_dataset,
\* download_indian_nutrient_database, setup_calorie_ninjas_api,
\* create_food_mapping or process_nutrition_data stays in that step: the
\* steps are called in the fixed order, none of the five ever ends main, and
\* after such a failure main goes on to call every later step and prints its
\* completion message, unless setup_directories or create_requirements_txt
\* (which have no handler) raise themselves.
C26_FailuresContained ==
  /\ [](/\ calls = SubSeq(SetupSteps, 1, Len(calls))
        /\ last.raised \notin ContainedSteps
        /\ last.failed \subseteq Range(calls)
        /\ last.outcome = "complete" => calls = SetupSteps)
  /\ \A step \in ContainedSteps :
       [](step \in last.failed
            => <>(\/ last.outcome = "complete" /\ calls = SetupSteps
                  \/ last.raised = "create_requirements_txt"))

\* main has printed the completion message after the kaggle download, the
\* INDB step and the processing step have all failed
C26_Witness ==
  /\ last.op = "setup_datasets_main"
  /\ last.outcome = "complete"
  /\ calls = SetupSteps
  /\ {"download_kaggle_dataset", "download_indian_nutrient_database",
      "process_nutrition_data"} \subseteq last.failed
  /\ artifacts.files["requirements.txt"] = "valid"

\* C19: whenever the pipeline has called create_data_generators, the train
\* and validation trees hold the directories of exactly the raw categories
\* with at least MinSamples images, and the three trees split every image of
\* each of them.
C19_GeneratorsSeeCompleteSplit ==
  (last.op = "train_main" /\ "create_data_generators" \in Range(calls)) =>
    /\ DOMAIN tree["train"] = RetainedCats
    /\ DOMAIN tree["validation"] = RetainedCats
    /\ \A c \in RetainedCats :
         LET T == FilesIn("train", c)
             V == FilesIn("validation", c)
             E == FilesIn("test", c)
         IN  /\ T \cap V = {} /\ T \cap E = {} /\ V \cap E = {}
             /\ T \cup V \cup E = SourceImages(c)

\* C20: a run of the pipeline calls prepare_dataset_splits exactly when the
\* train directory is missing or has no entry; when it has an entry, the
\* three trees are after the run what they were before it.
C20_PrepareWhenTrainEmpty ==
  [][(rawExists /\ last'.op = "train_main")
       => /\ TrainEmpty <=> ("prepare_dataset_splits" \in Range(calls'))
          /\ ~TrainEmpty => (exists' = exists /\ tree' = tree)]_vars

\* the pipeline has gone to the generators over a populated train tree
\* without preparing a split
C20_Witness ==
  /\ last.op = "train_main"
  /\ calls = <<"create_data_generators">>
  /\ \E c \in DOMAIN tree["train"] : tree["train"][c] # {}

====
